---- MODULE Spec2Model ----
(***************************************************************************)
(* Model of custom_components/kiturami/api.py: the KrbClient session       *)
(* client (raw request, post with one re-login and retry, login) and the   *)
(* KrbAPI command facade built on it.                                      *)
(*                                                                         *)
(* Callers are asyncio tasks sharing one KrbClient.  A task runs without   *)
(* interruption between two suspension points; the only suspension points  *)
(* of the code are inside _async_request (session.post awaiting the        *)
(* network, response.text() and asyncio.sleep(2)).  The header dict of     *)
(* session.post is evaluated before the first suspension, so one step of   *)
(* a task is: the in-flight request completes, the code runs on up to and  *)
(* including the evaluation of the next request, or up to the end of the   *)
(* call.  What the server answers is chosen nondeterministically.          *)
(***************************************************************************)
EXTENDS Integers, Sequences, FiniteSets, TLC

VARIABLES
    username,   \* KrbClient.username
    password,   \* KrbClient._password
    auth_key,   \* KrbClient.auth_key
    stored,     \* whether login() has ever assigned auth_key (line 58)
    active,     \* the caller tasks that share the client
    menu,       \* which operations the callers invoke: see Menu
    calls,      \* number of top-level calls started so far
    fails,      \* number of failing answers the server has given so far
    pc,         \* per task: "idle", "wait" (a request is in flight), "done"
    call,       \* per task: the top-level operation and its arguments
    step,       \* per task: index of the downstream post() of the operation
    loc,        \* per task: the local variables of the facade method
    req,        \* per task: url and args of the current post()
    ctx,        \* per task: which request of post() is in flight
    resp1,      \* per task: post()'s local `response` before the retry
    got,        \* per task: the responses received within the current post()
    log,        \* per task: the requests sent within the current call
    outcome     \* per task: what the finished call returned or raised

vars == <<username, password, auth_key, stored, active, menu, calls, fails, pc, call,
          step, loc, req, ctx, resp1, got, log, outcome>>

---------------------------------------------------------------------------
(* Bounds of the model. *)

MaxCalls == 2
MaxFails == 2

(* The callers: two tasks are what a race on the shared token needs. *)
Tasks == {1, 2}

---------------------------------------------------------------------------
(* const.py *)

KITURAMI_API_URL == "https://igis.krb.co.kr/api"

---------------------------------------------------------------------------
(* Python values: None, a dict parsed from JSON, any other value; and the  *)
(* result of evaluating an expression: a value or a raised exception.      *)

PyNone == [py |-> "None"]
PyDict(d) == [py |-> "dict", d |-> d]
PyVal(v) == [py |-> "val", v |-> v]

Ret(v) == [ok |-> TRUE, val |-> v]
Raise(e) == [ok |-> FALSE, err |-> e]

(* r.get(key, '') written for r[key]. *)
Subscript_Get(r, key) ==
    IF ~r.ok THEN r
    ELSE IF r.val.py # "dict" THEN Raise("TypeError")
    ELSE IF key \notin DOMAIN r.val.d THEN Ret(PyVal(""))
    ELSE Ret(PyVal(r.val.d[key]))

(* r[key] for the parsed body r of a response. *)
Subscript(r, key) ==
    IF ~r.ok THEN r
    ELSE IF r.val.py # "dict" THEN Raise("TypeError")
    ELSE IF key \notin DOMAIN r.val.d THEN Raise("KeyError")
    ELSE Ret(PyVal(r.val.d[key]))

---------------------------------------------------------------------------
(* What the server can answer. *)

NoJson == [k \in {} |-> ""]

Device == [nodeId |-> "N1"]
DeviceList == <<Device>>

JsonBodies ==
    { [authKey |-> "abc"],
      [authKey |-> "xyz"],
      [authKey |-> ""],
      [memberDeviceList |-> DeviceList],
      [deviceSlaveInfo |-> "slaves"],
      [value |-> "1E"],
      [value |-> "2A", option1 |-> "05"],
      [message |-> "fail"] }

Responses ==
    { [status |-> 200, ctype |-> "text/json", kind |-> "json", json |-> j] :
          j \in JsonBodies }
    \cup
    { [status |-> 401, ctype |-> "text/json", kind |-> "json",
       json |-> [message |-> "fail"]],
      [status |-> 401, ctype |-> "text/json", kind |-> "empty", json |-> NoJson],
      [status |-> 401, ctype |-> "text/html", kind |-> "empty", json |-> NoJson],
      [status |-> 200, ctype |-> "text/json", kind |-> "empty", json |-> NoJson],
      [status |-> 200, ctype |-> "text/json", kind |-> "text", json |-> NoJson] }

NoResponse == [status |-> 0, ctype |-> "", kind |-> "none", json |-> NoJson]

(* response.json(content_type='text/json') of aiohttp: the declared media  *)
(* type is checked first, an empty body parses to None, any other body is  *)
(* decoded as JSON.                                                        *)
Json(resp) ==
    IF resp.ctype # "text/json" THEN Raise("ContentTypeError")
    ELSE IF resp.kind = "empty" THEN Ret(PyNone)
    ELSE IF resp.kind = "text" THEN Raise("JSONDecodeError")
    ELSE Ret(PyDict(resp.json))

---------------------------------------------------------------------------
(* Formatting. *)

HexDigit(d) ==
    CASE d = 0 -> "0" [] d = 1 -> "1" [] d = 2 -> "2" [] d = 3 -> "3"
      [] d = 4 -> "4" [] d = 5 -> "5" [] d = 6 -> "6" [] d = 7 -> "7"
      [] d = 8 -> "8" [] d = 9 -> "9" [] d = 10 -> "A" [] d = 11 -> "B"
      [] d = 12 -> "C" [] d = 13 -> "D" [] d = 14 -> "E" [] d = 15 -> "F"

(* The number formatted in decimal, as '{}'.format(n) does. *)
RECURSIVE FormatX_Decimal(_)
FormatX_Decimal(n) ==
    IF n < 10 THEN HexDigit(n)
    ELSE FormatX_Decimal(n \div 10) \o HexDigit(n % 10)

(* '{:X}'.format(n): uppercase hexadecimal, no prefix, no padding. *)
RECURSIVE FormatX(_)
FormatX(n) ==
    IF n < 16 THEN HexDigit(n) ELSE FormatX(n \div 16) \o HexDigit(n % 16)

---------------------------------------------------------------------------
(* hashlib.sha256: SHA-256 of FIPS 180-4.  A 32-bit word is the pair of    *)
(* its two 16-bit halves, high half first.                                 *)

RECURSIVE Xor16(_, _)
Xor16(a, b) ==
    IF a = 0 THEN b
    ELSE IF b = 0 THEN a
    ELSE (((a % 2) + (b % 2)) % 2) + 2 * Xor16(a \div 2, b \div 2)

RECURSIVE And16(_, _)
And16(a, b) ==
    IF a = 0 \/ b = 0 THEN 0
    ELSE (a % 2) * (b % 2) + 2 * And16(a \div 2, b \div 2)

Xor(a, b) == <<Xor16(a[1], b[1]), Xor16(a[2], b[2])>>
And(a, b) == <<And16(a[1], b[1]), And16(a[2], b[2])>>
Not(a) == <<65535 - a[1], 65535 - a[2]>>

RECURSIVE RotR(_, _)
RotR(a, n) ==
    IF n >= 16 THEN RotR(<<a[2], a[1]>>, n - 16)
    ELSE IF n = 0 THEN a
    ELSE LET p == 2 ^ n
             q == 2 ^ (16 - n)
         IN  << (a[1] \div p) + (a[2] % p) * q, (a[2] \div p) + (a[1] % p) * q >>

ShR(a, n) ==
    IF n >= 16 THEN <<0, a[1] \div (2 ^ (n - 16))>>
    ELSE LET p == 2 ^ n
             q == 2 ^ (16 - n)
         IN  << a[1] \div p, (a[2] \div p) + (a[1] % p) * q >>

(* Addition modulo 2^32. *)
Add(a, b) ==
    LET lo == a[2] + b[2]
        hi == a[1] + b[1] + (lo \div 65536)
    IN  <<hi % 65536, lo % 65536>>

Sha256K ==
    <<
       <<17034, 12184>>, <<28983, 17553>>, <<46528, 64463>>, <<59829, 56229>>,
       <<14678, 49755>>, <<23025, 4593>>, <<37439, 33444>>, <<43804, 24277>>,
       <<55303, 43672>>, <<4739, 23297>>, <<9265, 34238>>, <<21772, 32195>>,
       <<29374, 23924>>, <<32990, 45566>>, <<39900, 1703>>, <<49563, 61812>>,
       <<58523, 27073>>, <<61374, 18310>>, <<4033, 40390>>, <<9228, 41420>>,
       <<11753, 11375>>, <<19060, 33962>>, <<23728, 43484>>, <<30457, 35034>>,
       <<38974, 20818>>, <<43057, 50797>>, <<45059, 10184>>, <<48985, 32711>>,
       <<50912, 3059>>, <<54695, 37191>>, <<1738, 25425>>, <<5161, 10599>>,
       <<10167, 2693>>, <<11803, 8504>>, <<19756, 28156>>, <<21304, 3347>>,
       <<25866, 29524>>, <<30314, 2747>>, <<33218, 51502>>, <<37490, 11397>>,
       <<41663, 59553>>, <<43034, 26187>>, <<49739, 35696>>, <<51052, 20899>>,
       <<53650, 59417>>, <<54937, 1572>>, <<62478, 13701>>, <<4202, 41072>>,
       <<6564, 49430>>, <<7735, 27656>>, <<10056, 30540>>, <<13488, 48309>>,
       <<14620, 3251>>, <<20184, 43594>>, <<23452, 51791>>, <<26670, 28659>>,
       <<29839, 33518>>, <<30885, 25455>>, <<33992, 30740>>, <<36039, 520>>,
       <<37054, 65530>>, <<42064, 27883>>, <<48889, 41975>>, <<50801, 30962>>
    >>

Sha256H0 ==
    <<
       <<27145, 58983>>, <<47975, 44677>>, <<15470, 62322>>, <<42319, 62778>>,
       <<20750, 21119>>, <<39685, 26764>>, <<8067, 55723>>, <<23520, 52505>>
    >>

RECURSIVE Zeros(_)
Zeros(n) == IF n = 0 THEN <<>> ELSE Append(Zeros(n - 1), 0)

(* The message padded to whole 64-byte blocks: 0x80, zeros, and the length *)
(* in bits as 8 bytes.                                                     *)
Padded(bytes) ==
    LET n == Len(bytes)
        z == (119 - (n % 64)) % 64
        bitlen == 8 * n
    IN  bytes \o <<128>> \o Zeros(z) \o Zeros(4)
        \o << (bitlen \div 16777216) % 256, (bitlen \div 65536) % 256,
              (bitlen \div 256) % 256, bitlen % 256 >>

RECURSIVE BlockWords(_, _, _)
(* The 16 words of block b (counted from 0) of the padded message m. *)
BlockWords(m, b, i) ==
    IF i > 16 THEN <<>>
    ELSE LET at == 64 * b + 4 * (i - 1)
         IN  << <<256 * m[at + 1] + m[at + 2], 256 * m[at + 3] + m[at + 4]>> >>
             \o BlockWords(m, b, i + 1)

RECURSIVE Schedule(_)
Schedule(w) ==
    IF Len(w) = 64 THEN w
    ELSE LET i == Len(w) + 1
             s0 == Xor(Xor(RotR(w[i - 15], 7), RotR(w[i - 15], 18)),
                       ShR(w[i - 15], 3))
             s1 == Xor(Xor(RotR(w[i - 2], 17), RotR(w[i - 2], 19)),
                       ShR(w[i - 2], 10))
         IN  Schedule(Append(w, Add(Add(w[i - 16], s0), Add(w[i - 7], s1))))

RECURSIVE Rounds(_, _, _)
(* The working variables a..h after the rounds i..64 on the schedule w.    *)
(* (Reading h in the test makes TLC work out each round's variables before *)
(* it goes on to the next.)                                                *)
Rounds(h, w, i) ==
    IF Len(h) = 8 /\ i > 64 THEN h
    ELSE LET a == h[1]
             e == h[5]
             S1 == Xor(Xor(RotR(e, 6), RotR(e, 11)), RotR(e, 25))
             ch == Xor(And(e, h[6]), And(Not(e), h[7]))
             t1 == Add(Add(Add(h[8], S1), Add(ch, Sha256K[i])), w[i])
             S0 == Xor(Xor(RotR(a, 2), RotR(a, 13)), RotR(a, 22))
             maj == Xor(Xor(And(a, h[2]), And(a, h[3])), And(h[2], h[3]))
             t2 == Add(S0, maj)
         IN  Rounds(<<Add(t1, t2), a, h[2], h[3], Add(h[4], t1), e, h[6], h[7]>>,
                    w, i + 1)

RECURSIVE Blocks(_, _, _)
Blocks(h, m, b) ==
    IF 64 * b >= Len(m) THEN h
    ELSE LET out == Rounds(h, Schedule(BlockWords(m, b, 1)), 1)
         IN  Blocks(<<Add(h[1], out[1]), Add(h[2], out[2]), Add(h[3], out[3]),
                      Add(h[4], out[4]), Add(h[5], out[5]), Add(h[6], out[6]),
                      Add(h[7], out[7]), Add(h[8], out[8])>>, m, b + 1)

Sha256(bytes) == Blocks(Sha256H0, Padded(bytes), 0)

LowerHexDigit(d) ==
    CASE d = 0 -> "0" [] d = 1 -> "1" [] d = 2 -> "2" [] d = 3 -> "3"
      [] d = 4 -> "4" [] d = 5 -> "5" [] d = 6 -> "6" [] d = 7 -> "7"
      [] d = 8 -> "8" [] d = 9 -> "9" [] d = 10 -> "a" [] d = 11 -> "b"
      [] d = 12 -> "c" [] d = 13 -> "d" [] d = 14 -> "e" [] d = 15 -> "f"

Hex16(v) ==
    LowerHexDigit(v \div 4096) \o LowerHexDigit((v \div 256) % 16)
    \o LowerHexDigit((v \div 16) % 16) \o LowerHexDigit(v % 16)

RECURSIVE HexDigest(_)
(* .hexdigest(): the words of the digest as lowercase hexadecimal. *)
HexDigest(h) ==
    IF h = <<>> THEN ""
    ELSE Hex16(Head(h)[1]) \o Hex16(Head(h)[2]) \o HexDigest(Tail(h))

(* .encode('utf-8') of the passwords in use: their bytes. *)
Utf8(p) ==
    CASE p = "hunter2" -> <<104, 117, 110, 116, 101, 114, 50>>
      [] p = "s3cret" -> <<115, 51, 99, 114, 101, 116>>

(* hashlib.sha256(p.encode('utf-8')).hexdigest(), worked out once for each *)
(* password in use.                                                        *)
Digests == [p \in {"hunter2", "s3cret"} |-> HexDigest(Sha256(Utf8(p)))]

Sha256Hex(p) == Digests[p]

---------------------------------------------------------------------------
(* KrbClient: the requests it builds. *)

Request(url, args) == [url |-> url, args |-> args]

(* The header left empty. *)
AuthHeader_Empty(key) == ""

(* 'AUTH-KEY': self.auth_key, evaluated when session.post is called. *)
AuthHeader(key) == key

(* The value tested with `is not None`: an empty string passes. *)
Truthy_NotNone(v) == v.py # "None"

(* not target_temp, and the truth value of the token login() returns. *)
Truthy(v) == v.py # "None" /\ v.v # ""

(* The token dropped when the server rejects a request. *)
RequestToken_Drop(key, resp) == IF resp.status # 200 THEN "" ELSE key

(* The token dropped when the transport fails. *)
RaisedToken_Drop(key) == ""

(* _async_request only reads self.auth_key: the token after it returned    *)
(* resp, and after it re-raised an exception.                              *)
RequestToken(key, resp) == key

RaisedToken(key) == key

(* The exception logged and not raised again. *)
Reraise_Swallowed(ex) == Ret(PyNone)

(* except Exception as ex: log it, then raise. *)
Reraise(ex) == Raise(ex)

(* The status test written == for !=. *)
NeedsLogin_StatusEq(resp) == resp.status = 200 \/ resp.kind = "empty"

(* response.status != 200 or not await response.text() *)
NeedsLogin(resp) == resp.status # 200 \/ resp.kind = "empty"

(* The password sent as it is. *)
LoginRequest_Plain(user, pass) ==
    Request(KITURAMI_API_URL \o "/member/login",
            [memberId |-> user, password |-> pass])

LoginRequest(user, pass) ==
    Request(KITURAMI_API_URL \o "/member/login",
            [memberId |-> user, password |-> Sha256Hex(pass)])

DeviceListRequest ==
    Request(KITURAMI_API_URL \o "/member/getMemberDeviceList",
            [parentId |-> "1"])

DeviceInfoRequest(device) ==
    Request(KITURAMI_API_URL \o "/device/getDeviceInfo",
            [nodeId |-> device.nodeId, parentId |-> "1"])

IosRequest == Request(KITURAMI_API_URL \o "/notice/getNoticeIos", NoJson)

(* KrbAPI: the requests it builds. *)

AliveRequest(parent_id, node_id) ==
    Request(KITURAMI_API_URL \o "/device/isAliveNormal",
            [nodeId |-> node_id, parentId |-> parent_id])

ModeInfoRequest(parent_id, node_id, slave_id, action_id) ==
    Request(KITURAMI_API_URL \o "/device/getDeviceModeInfo",
            [nodeId |-> node_id, actionId |-> action_id,
             parentId |-> parent_id, slaveId |-> slave_id])

ControlRequest(node_id, message_id, message_body) ==
    Request(KITURAMI_API_URL \o "/device/deviceControl",
            [nodeIds |-> <<node_id>>, messageId |-> message_id,
             messageBody |-> message_body])

---------------------------------------------------------------------------
(* The methods that call async_post, as coroutines: k is the number of     *)
(* downstream calls that have returned, r the value the last one returned, *)
(* l the method's local variables.  A method either makes its next         *)
(* downstream call, returns, or raises.                                    *)

Post(rq, l) == [do |-> "post", req |-> rq, loc |-> l]
Return(v) == [do |-> "return", val |-> v]
Throw(e) == [do |-> "raise", err |-> e]

(* response is the method's local of that name: the value of the last      *)
(* downstream call whose result the method assigned to it.                 *)
NoLocals == [value |-> "", option1 |-> "", response |-> PyNone]

(* The whole response returned, not its memberDeviceList. *)
async_get_device_list_Whole(c, k, l, r) ==
    IF k = 0 THEN Post(DeviceListRequest, l) ELSE Return(r.val)

async_get_device_list(c, k, l, r) ==
    IF k = 0 THEN Post(DeviceListRequest, l)
    ELSE LET v == Subscript(r, "memberDeviceList")
         IN  IF v.ok THEN Return(v.val) ELSE Throw(v.err)

async_get_device_info(c, k, l, r) ==
    IF k = 0 THEN Post(DeviceInfoRequest(c.device), l)
    ELSE LET v == Subscript(r, "deviceSlaveInfo")
         IN  IF v.ok THEN Return(v.val) ELSE Throw(v.err)

async_ios(c, k, l, r) ==
    IF k = 0 THEN Post(IosRequest, l) ELSE Return(r.val)

async_get_alive(c, k, l, r) ==
    IF k = 0 THEN Post(AliveRequest(c.parent_id, c.node_id), l)
    ELSE Return(r.val)

async_device_mode_info(c, k, l, r) ==
    IF k = 0
    THEN Post(ModeInfoRequest(c.parent_id, c.node_id, c.slave_id, c.action_id), l)
    ELSE Return(r.val)

async_device_control(c, k, l, r) ==
    IF k = 0
    THEN Post(ControlRequest(c.node_id, c.message_id, c.message_body), l)
    ELSE Return(r.val)

async_turn_on(c, k, l, r) ==
    IF k = 0
    THEN Post(ControlRequest(c.node_id, "0101", c.slave_id \o "0000000001"), l)
    ELSE Return(PyNone)

(* The body of turn_on copied into turn_off. *)
async_turn_off_AsOn(c, k, l, r) ==
    IF k = 0
    THEN Post(ControlRequest(c.node_id, "0101", c.slave_id \o "0000000001"), l)
    ELSE Return(PyNone)

async_turn_off(c, k, l, r) ==
    IF k = 0
    THEN Post(ControlRequest(c.node_id, "0101", c.slave_id \o "0000000002"), l)
    ELSE Return(PyNone)

(* The target tested with `is None`: an empty target is sent as it is. *)
async_mode_heat_IsNone(c, k, l, r) ==
    LET control(temp) ==
            ControlRequest(c.node_id, "0102",
                           c.slave_id \o "000000" \o temp \o "00")
    IN  IF c.target_temp.py # "None"
        THEN IF k = 0 THEN Post(control(c.target_temp.v), l)
             ELSE Return(PyNone)
        ELSE CASE k = 0 ->
                    Post(ModeInfoRequest(c.parent_id, c.node_id, c.slave_id,
                                         "0102"), l)
               [] k = 1 ->
                    LET v == Subscript(r, "value")
                    IN  IF v.ok
                        THEN Post(control(v.val.v),
                                  [l EXCEPT !.response = r.val,
                                            !.value = v.val.v])
                        ELSE Throw(v.err)
               [] OTHER -> Return(PyNone)

(* With a target the only downstream call is the control message; without  *)
(* one the mode info is read first and its value becomes the target.       *)
async_mode_heat(c, k, l, r) ==
    LET control(temp) ==
            ControlRequest(c.node_id, "0102",
                           c.slave_id \o "000000" \o temp \o "00")
    IN  IF Truthy(c.target_temp)
        THEN IF k = 0 THEN Post(control(c.target_temp.v), l)
             ELSE Return(PyNone)
        ELSE CASE k = 0 ->
                    Post(ModeInfoRequest(c.parent_id, c.node_id, c.slave_id,
                                         "0102"), l)
               [] k = 1 ->
                    LET v == Subscript(r, "value")
                    IN  IF v.ok
                        THEN Post(control(v.val.v),
                                  [l EXCEPT !.response = r.val,
                                            !.value = v.val.v])
                        ELSE Throw(v.err)
               [] OTHER -> Return(PyNone)

(* The last mode-info read left out. *)
async_mode_bath_NoRead(c, k, l, r) ==
    CASE k = 0 ->
           Post(ModeInfoRequest(c.parent_id, c.node_id, "01", "0105"), l)
      [] k = 1 ->
           LET v == Subscript(r, "value")
           IN  IF v.ok
               THEN Post(ControlRequest(c.node_id, "0105",
                                        "00000000" \o v.val.v \o "00"),
                         [l EXCEPT !.response = r.val, !.value = v.val.v])
               ELSE Throw(v.err)
      [] k = 2 ->
           Post(ControlRequest(c.node_id, "0103",
                               "00000000" \o FormatX(80) \o FormatX(70)), l)
      [] k = 3 ->
           Post(ControlRequest(c.node_id, "0115",
                               "00000000" \o FormatX(70) \o "00"), l)
      [] OTHER -> Return(PyNone)

(* A missing value skipped over: the method goes on with the next message. *)
async_mode_bath_GoesOn(c, k, l, r) ==
    CASE k = 0 ->
           Post(ModeInfoRequest(c.parent_id, c.node_id, "01", "0105"), l)
      [] k = 1 ->
           LET v == Subscript(r, "value")
           IN  IF v.ok
               THEN Post(ControlRequest(c.node_id, "0105",
                                        "00000000" \o v.val.v \o "00"),
                         [l EXCEPT !.response = r.val, !.value = v.val.v])
               ELSE Post(ControlRequest(c.node_id, "0103",
                               "00000000" \o FormatX(80) \o FormatX(70)), l)
      [] k = 2 ->
           Post(ControlRequest(c.node_id, "0103",
                               "00000000" \o FormatX(80) \o FormatX(70)), l)
      [] k = 3 ->
           Post(ControlRequest(c.node_id, "0115",
                               "00000000" \o FormatX(70) \o "00"), l)
      [] k = 4 ->
           Post(ModeInfoRequest(c.parent_id, c.node_id, "01", "0105"), l)
      [] OTHER -> Return(PyNone)

async_mode_bath(c, k, l, r) ==
    CASE k = 0 ->
           Post(ModeInfoRequest(c.parent_id, c.node_id, "01", "0105"), l)
      [] k = 1 ->
           LET v == Subscript(r, "value")
           IN  IF v.ok
               THEN Post(ControlRequest(c.node_id, "0105",
                                        "00000000" \o v.val.v \o "00"),
                         [l EXCEPT !.response = r.val, !.value = v.val.v])
               ELSE Throw(v.err)
      [] k = 2 ->
           Post(ControlRequest(c.node_id, "0103",
                               "00000000" \o FormatX(80) \o FormatX(70)), l)
      [] k = 3 ->
           Post(ControlRequest(c.node_id, "0115",
                               "00000000" \o FormatX(70) \o "00"), l)
      [] k = 4 ->
           Post(ModeInfoRequest(c.parent_id, c.node_id, "01", "0105"), l)
      [] OTHER -> Return(PyNone)

async_mode_reservation(c, k, l, r) ==
    CASE k = 0 ->
           Post(ModeInfoRequest(c.parent_id, c.node_id, c.slave_id, "0107"), l)
      [] k = 1 ->
           LET v == Subscript(r, "value")
           IN  IF v.ok
               THEN Post(ControlRequest(c.node_id, "0107", c.slave_id \o v.val.v),
                         [l EXCEPT !.response = r.val, !.value = v.val.v])
               ELSE Throw(v.err)
      [] OTHER -> Return(PyNone)

(* option1 read with a default: a mode info without it is sent on. *)
async_mode_reservation_repeat_Lenient(c, k, l, r) ==
    CASE k = 0 ->
           Post(ModeInfoRequest(c.parent_id, c.node_id, c.slave_id, "0108"), l)
      [] k = 1 ->
           LET v == Subscript(r, "value")
               o == Subscript_Get(r, "option1")
           IN  IF ~v.ok THEN Throw(v.err)
               ELSE IF ~o.ok THEN Throw(o.err)
               ELSE Post(ControlRequest(c.node_id, "0108",
                             c.slave_id \o "000000" \o v.val.v \o o.val.v),
                         [l EXCEPT !.response = r.val, !.value = v.val.v,
                                   !.option1 = o.val.v])
      [] OTHER -> Return(PyNone)

async_mode_reservation_repeat(c, k, l, r) ==
    CASE k = 0 ->
           Post(ModeInfoRequest(c.parent_id, c.node_id, c.slave_id, "0108"), l)
      [] k = 1 ->
           LET v == Subscript(r, "value")
               o == Subscript(r, "option1")
           IN  IF ~v.ok THEN Throw(v.err)
               ELSE IF ~o.ok THEN Throw(o.err)
               ELSE Post(ControlRequest(c.node_id, "0108",
                             c.slave_id \o "000000" \o v.val.v \o o.val.v),
                         [l EXCEPT !.response = r.val, !.value = v.val.v,
                                    !.option1 = o.val.v])
      [] OTHER -> Return(PyNone)

async_mode_away(c, k, l, r) ==
    IF k = 0
    THEN Post(ControlRequest(c.node_id, "0106", c.slave_id \o "0200000000"), l)
    ELSE Return(PyNone)

Method(c, k, l, r) ==
    CASE c.op = "get_device_list" -> async_get_device_list(c, k, l, r)
      [] c.op = "get_device_info" -> async_get_device_info(c, k, l, r)
      [] c.op = "ios" -> async_ios(c, k, l, r)
      [] c.op = "get_alive" -> async_get_alive(c, k, l, r)
      [] c.op = "device_mode_info" -> async_device_mode_info(c, k, l, r)
      [] c.op = "device_control" -> async_device_control(c, k, l, r)
      [] c.op = "turn_on" -> async_turn_on(c, k, l, r)
      [] c.op = "turn_off" -> async_turn_off(c, k, l, r)
      [] c.op = "mode_heat" -> async_mode_heat(c, k, l, r)
      [] c.op = "mode_bath" -> async_mode_bath(c, k, l, r)
      [] c.op = "mode_reservation" -> async_mode_reservation(c, k, l, r)
      [] c.op = "mode_reservation_repeat" ->
             async_mode_reservation_repeat(c, k, l, r)
      [] c.op = "mode_away" -> async_mode_away(c, k, l, r)

---------------------------------------------------------------------------
(* The calls the callers make, with their arguments. *)

Op(name) ==
    [op |-> name, parent_id |-> "1", node_id |-> "N1", slave_id |-> "01",
     action_id |-> "0102", message_id |-> "", message_body |-> "",
     target_temp |-> PyNone, device |-> Device]

NoCall == Op("none")

SlaveIds == {"01", "02"}
TargetTemps == {PyNone, PyVal(""), PyVal("19")}

ClientCalls ==
    {Op("login"), Op("get_device_list"), Op("get_device_info"), Op("ios")}

FacadeCalls ==
    {Op("get_alive"), Op("mode_bath"),
     [Op("device_mode_info") EXCEPT !.action_id = "0105"],
     [Op("device_control") EXCEPT !.message_id = "0101",
                                  !.message_body = "010000000001"]}
    \cup
    { [Op(n) EXCEPT !.slave_id = s] :
          n \in {"turn_on", "turn_off", "mode_reservation",
                 "mode_reservation_repeat", "mode_away"},
          s \in SlaveIds }
    \cup
    { [Op("mode_heat") EXCEPT !.target_temp = tt] : tt \in TargetTemps }

AllCalls == ClientCalls \cup FacadeCalls

(* The calls of a menu: all of them, or those of callers that share the    *)
(* client.                                                                 *)
Menu(m) == IF m = "all" THEN AllCalls ELSE {Op("login"), Op("ios")}

---------------------------------------------------------------------------
(* The state after KrbClient.__init__ and KrbAPI.__init__. *)

Usernames == {"user"}
Passwords == {"hunter2", "s3cret"}

NoRequest == Request("", NoJson)
Pending == [ok |-> FALSE, err |-> "pending"]
TransportFailed == [status |-> 0, ctype |-> "", kind |-> "failed", json |-> NoJson]

InitClient ==
    /\ username \in Usernames
    /\ auth_key = ""
    /\ stored = FALSE
    /\ calls = 0
    /\ fails = 0
    /\ pc = [t \in Tasks |-> "idle"]
    /\ call = [t \in Tasks |-> NoCall]
    /\ step = [t \in Tasks |-> 0]
    /\ loc = [t \in Tasks |-> NoLocals]
    /\ req = [t \in Tasks |-> NoRequest]
    /\ ctx = [t \in Tasks |-> "none"]
    /\ resp1 = [t \in Tasks |-> NoResponse]
    /\ got = [t \in Tasks |-> <<>>]
    /\ log = [t \in Tasks |-> <<>>]
    /\ outcome = [t \in Tasks |-> Pending]

(* One caller, every operation of the client and of the facade. *)
Init ==
    /\ InitClient
    /\ password \in Passwords
    /\ active = {1}
    /\ menu = "all"

(* Two callers sharing the client: each logs in or posts. *)
InitShared ==
    /\ InitClient
    /\ password = "hunter2"
    /\ active = Tasks
    /\ menu = "shared"

---------------------------------------------------------------------------
(* _async_request: the request as session.post is given it.  tok records   *)
(* the token at that moment, kind and step which request of the call it is.*)

(* The header built from the token as it was before the step. *)
Sent_Stale(lg, rq, kind, k) ==
    Append(lg, [url |-> rq.url, args |-> rq.args,
                hdr |-> AuthHeader(auth_key), tok |-> auth_key',
                kind |-> kind, step |-> k])

Sent(lg, rq, kind, k) ==
    Append(lg, [url |-> rq.url, args |-> rq.args,
                hdr |-> AuthHeader(auth_key'), tok |-> auth_key',
                kind |-> kind, step |-> k])

(* The server's failing answers, which the bound MaxFails counts. *)
Failing(resp) == resp.status # 200 \/ resp.kind = "empty"

Answered(resp) ==
    /\ Failing(resp) => fails < MaxFails
    /\ fails' = IF Failing(resp) THEN fails + 1 ELSE fails

(* The call of task t ends: it returns or raises o. *)
Finish(t, o, g) ==
    /\ pc' = [pc EXCEPT ![t] = "done"]
    /\ outcome' = [outcome EXCEPT ![t] = o]
    /\ got' = [got EXCEPT ![t] = g]
    /\ UNCHANGED <<call, step, loc, req, ctx, resp1, log>>

(* The method of task t goes on after k downstream calls: a is what it does. *)
Proceed(t, c, lg, a, k, g) ==
    CASE a.do = "post" ->
           /\ pc' = [pc EXCEPT ![t] = "wait"]
           /\ call' = [call EXCEPT ![t] = c]
           /\ step' = [step EXCEPT ![t] = k + 1]
           /\ loc' = [loc EXCEPT ![t] = a.loc]
           /\ req' = [req EXCEPT ![t] = a.req]
           /\ ctx' = [ctx EXCEPT ![t] = "first"]
           /\ resp1' = [resp1 EXCEPT ![t] = NoResponse]
           /\ got' = [got EXCEPT ![t] = <<>>]
           /\ log' = [log EXCEPT ![t] = Sent(lg, a.req, "first", k + 1)]
           /\ outcome' = [outcome EXCEPT ![t] = Pending]
      [] a.do = "return" -> Finish(t, Ret(a.val), g)
      [] a.do = "raise" -> Finish(t, Raise(a.err), g)

(* async_post returns or raises r to the method of task t. *)
PostReturns(t, r, g) ==
    IF r.ok
    THEN Proceed(t, call[t], log[t],
                 Method(call[t], step[t], loc[t], r), step[t], g)
    ELSE Finish(t, r, g)

---------------------------------------------------------------------------
(* The steps. *)

(* A caller invokes an operation; it runs up to its first request. *)
Call(t) ==
    /\ t \in active
    /\ pc[t] \in {"idle", "done"}
    /\ calls < MaxCalls
    /\ calls' = calls + 1
    /\ UNCHANGED <<username, password, auth_key, stored, active, menu, fails>>
    /\ \E c \in Menu(menu) :
          IF c.op = "login"
          THEN /\ pc' = [pc EXCEPT ![t] = "wait"]
               /\ call' = [call EXCEPT ![t] = c]
               /\ step' = [step EXCEPT ![t] = 0]
               /\ loc' = [loc EXCEPT ![t] = NoLocals]
               /\ req' = [req EXCEPT ![t] = NoRequest]
               /\ ctx' = [ctx EXCEPT ![t] = "login"]
               /\ resp1' = [resp1 EXCEPT ![t] = NoResponse]
               /\ got' = [got EXCEPT ![t] = <<>>]
               /\ log' = [log EXCEPT ![t] =
                             Sent(<<>>, LoginRequest(username, password),
                                  "login", 0)]
               /\ outcome' = [outcome EXCEPT ![t] = Pending]
          ELSE Proceed(t, c, <<>>, Method(c, 0, NoLocals, Ret(PyNone)), 0, <<>>)

(* _async_request, lines 35-37: the request in flight fails in the         *)
(* transport; the exception is logged and re-raised, and nothing between   *)
(* there and the caller catches it.                                        *)
TransportFailure(t) ==
    /\ pc[t] = "wait"
    /\ fails < MaxFails
    /\ fails' = fails + 1
    /\ auth_key' = RaisedToken(auth_key)
    /\ Finish(t, Reraise("TransportError"), Append(got[t], TransportFailed))
    /\ UNCHANGED <<username, password, stored, active, menu, calls>>

(* async_post, lines 41-43 and 46: the first response is good; its body is *)
(* parsed and returned to the method.                                      *)
PostFirstResponse(t) ==
    /\ pc[t] = "wait"
    /\ ctx[t] = "first"
    /\ \E resp \in Responses :
          /\ ~NeedsLogin(resp)
          /\ Answered(resp)
          /\ auth_key' = RequestToken(auth_key, resp)
          /\ PostReturns(t, Json(resp), <<resp>>)
    /\ UNCHANGED <<username, password, stored, active, menu, calls>>

(* async_post, lines 41-43, and async_login, lines 50-56: the first        *)
(* response is not 200 or has no body; login() sends its request.          *)
PostRelogin(t) ==
    /\ pc[t] = "wait"
    /\ ctx[t] = "first"
    /\ \E resp \in Responses :
          /\ NeedsLogin(resp)
          /\ Answered(resp)
          /\ auth_key' = RequestToken(auth_key, resp)
          /\ resp1' = [resp1 EXCEPT ![t] = resp]
          /\ got' = [got EXCEPT ![t] = <<resp>>]
          /\ ctx' = [ctx EXCEPT ![t] = "login"]
          /\ log' = [log EXCEPT ![t] =
                        Sent(@, LoginRequest(username, password), "login",
                             step[t])]
    /\ UNCHANGED <<username, password, stored, active, menu, calls, pc, call,
                   step, loc, req, outcome>>

(* The retry sent with the url and args of the login. *)
LoginResponse_RetryLogin(t) ==
    /\ pc[t] = "wait"
    /\ ctx[t] = "login"
    /\ \E resp \in Responses :
          LET key == Subscript(Json(resp), "authKey")
              g == Append(got[t], resp)
          IN  /\ Answered(resp)
              /\ IF ~key.ok
                 THEN /\ auth_key' = RequestToken(auth_key, resp)
                      /\ stored' = stored
                      /\ Finish(t, key, g)
                 ELSE /\ auth_key' = key.val.v
                      /\ stored' = TRUE
                      /\ IF call[t].op = "login"
                         THEN Finish(t, Ret(key.val), g)
                         ELSE IF Truthy(key.val)
                         THEN /\ ctx' = [ctx EXCEPT ![t] = "retry"]
                              /\ got' = [got EXCEPT ![t] = g]
                              /\ log' = [log EXCEPT ![t] =
                                            Sent(@, LoginRequest(username, password),
                                                 "retry", step[t])]
                              /\ UNCHANGED <<pc, call, step, loc, req, resp1,
                                             outcome>>
                         ELSE PostReturns(t, Json(resp1[t]), g)
    /\ UNCHANGED <<username, password, active, menu, calls>>

(* async_login, lines 56-59: the login response is parsed and its authKey  *)
(* stored and returned; for a login made by async_post, lines 43-46: a     *)
(* true token sends the retry, any other makes post parse the first        *)
(* response.                                                               *)
LoginResponse(t) ==
    /\ pc[t] = "wait"
    /\ ctx[t] = "login"
    /\ \E resp \in Responses :
          LET key == Subscript(Json(resp), "authKey")
              g == Append(got[t], resp)
          IN  /\ Answered(resp)
              /\ IF ~key.ok
                 THEN /\ auth_key' = RequestToken(auth_key, resp)
                      /\ stored' = stored
                      /\ Finish(t, key, g)
                 ELSE /\ auth_key' = key.val.v
                      /\ stored' = TRUE
                      /\ IF call[t].op = "login"
                         THEN Finish(t, Ret(key.val), g)
                         ELSE IF Truthy(key.val)
                         THEN /\ ctx' = [ctx EXCEPT ![t] = "retry"]
                              /\ got' = [got EXCEPT ![t] = g]
                              /\ log' = [log EXCEPT ![t] =
                                            Sent(@, req[t], "retry", step[t])]
                              /\ UNCHANGED <<pc, call, step, loc, req, resp1,
                                             outcome>>
                         ELSE PostReturns(t, Json(resp1[t]), g)
    /\ UNCHANGED <<username, password, active, menu, calls>>

(* The test of async_post written as a loop: a retry that is rejected      *)
(* again makes post() log in again.                                        *)
RetryResponse_Loop(t) ==
    /\ pc[t] = "wait"
    /\ ctx[t] = "retry"
    /\ \E resp \in Responses :
          /\ Answered(resp)
          /\ auth_key' = RequestToken(auth_key, resp)
          /\ IF NeedsLogin(resp)
             THEN /\ got' = [got EXCEPT ![t] = Append(@, resp)]
                  /\ ctx' = [ctx EXCEPT ![t] = "login"]
                  /\ log' = [log EXCEPT ![t] =
                                Sent(@, LoginRequest(username, password),
                                     "login", step[t])]
                  /\ UNCHANGED <<pc, call, step, loc, req, resp1, outcome>>
             ELSE PostReturns(t, Json(resp), Append(got[t], resp))
    /\ UNCHANGED <<username, password, stored, active, menu, calls>>

(* The retry's response not assigned: the first response is parsed. *)
RetryResponse_First(t) ==
    /\ pc[t] = "wait"
    /\ ctx[t] = "retry"
    /\ \E resp \in Responses :
          /\ Answered(resp)
          /\ auth_key' = RequestToken(auth_key, resp)
          /\ PostReturns(t, Json(resp1[t]), Append(got[t], resp))
    /\ UNCHANGED <<username, password, stored, active, menu, calls>>

(* async_post, lines 44-46: the response of the retry is parsed and        *)
(* returned to the method, whatever it is.                                 *)
RetryResponse(t) ==
    /\ pc[t] = "wait"
    /\ ctx[t] = "retry"
    /\ \E resp \in Responses :
          /\ Answered(resp)
          /\ auth_key' = RequestToken(auth_key, resp)
          /\ PostReturns(t, Json(resp), Append(got[t], resp))
    /\ UNCHANGED <<username, password, stored, active, menu, calls>>

Next ==
    \E t \in Tasks :
        \/ Call(t)
        \/ TransportFailure(t)
        \/ PostFirstResponse(t)
        \/ PostRelogin(t)
        \/ LoginResponse(t)
        \/ RetryResponse(t)

Spec == Init /\ [][Next]_vars

SpecShared == InitShared /\ [][Next]_vars

---------------------------------------------------------------------------
(* Reading the record of a call. *)

RECURSIVE Count(_, _, _)
(* Number of the requests of step k in lg that are of the given kind. *)
Count(lg, k, kind) ==
    IF lg = <<>> THEN 0
    ELSE (IF Head(lg).step = k /\ Head(lg).kind = kind THEN 1 ELSE 0)
         + Count(Tail(lg), k, kind)

IsPost(t) == call[t].op \notin {"none", "login"}

(* A response with status 200 and a body, and its opposite. *)
GoodResponse(resp) == resp.status = 200 /\ resp.kind \in {"json", "text"}
BadResponse(resp) ==
    resp.kind # "failed" /\ (resp.status # 200 \/ resp.kind = "empty")

(* A login response from which login() returns: it parses and has authKey. *)
LoginReturns(resp) ==
    /\ resp.kind = "json"
    /\ resp.ctype = "text/json"
    /\ "authKey" \in DOMAIN resp.json

---------------------------------------------------------------------------
(* C1: a post() sends its request at most twice: once, and once more only  *)
(* after a first response that is not 200 or has no body and a login()     *)
(* that returned; after a first response that is 200 with a body it has    *)
(* sent one request and made no login().                                   *)
C1_AtMostOneRetry ==
    \A t \in Tasks :
        IsPost(t) =>
            LET firsts == Count(log[t], step[t], "first")
                logins == Count(log[t], step[t], "login")
                retries == Count(log[t], step[t], "retry")
            IN  /\ firsts = 1
                /\ retries <= 1
                /\ logins <= 1
                /\ firsts + retries <= 2
                /\ logins = 1 => (Len(got[t]) >= 1 /\ BadResponse(got[t][1]))
                /\ retries = 1 =>
                       /\ Len(got[t]) >= 2
                       /\ BadResponse(got[t][1])
                       /\ LoginReturns(got[t][2])
                       /\ logins = 1
                /\ (Len(got[t]) >= 1 /\ GoodResponse(got[t][1])) =>
                       (logins = 0 /\ retries = 0 /\ Len(got[t]) = 1)

(* A post() has finished after a retry. *)
C1_Witness ==
    \E t \in Tasks :
        /\ IsPost(t)
        /\ pc[t] = "done"
        /\ Count(log[t], step[t], "retry") = 1
        /\ Len(got[t]) = 3

---------------------------------------------------------------------------
(* What the caller gets when post() returns the parsed body r. *)
Delivered(t, r) ==
    IF ~r.ok THEN r
    ELSE LET a == Method(call[t], step[t], loc[t], r)
         IN  CASE a.do = "return" -> Ret(a.val)
               [] a.do = "raise" -> Raise(a.err)
               [] OTHER -> Pending

(* The exception login() raises on a response from which it does not       *)
(* return.                                                                 *)
LoginError(resp) ==
    CASE resp.kind = "failed" -> "TransportError"
      [] resp.kind # "failed" /\ resp.ctype # "text/json" -> "ContentTypeError"
      [] resp.ctype = "text/json" /\ resp.kind = "text" -> "JSONDecodeError"
      [] resp.ctype = "text/json" /\ resp.kind = "empty" -> "TypeError"
      [] OTHER -> "KeyError"

(* A post() whose first response was bad and whose login() did not return. *)
ReloginFailed(t) ==
    /\ IsPost(t)
    /\ Len(got[t]) = 2
    /\ BadResponse(got[t][1])
    /\ ~LoginReturns(got[t][2])

(* C2 as stated: when the first response of post() is bad and the login    *)
(* fails, no retry is sent and the caller receives the first response.     *)
C2_OriginalResponsePropagates ==
    \A t \in Tasks :
        ReloginFailed(t) =>
            /\ pc[t] = "done"
            /\ Count(log[t], step[t], "retry") = 0
            /\ outcome[t] = Delivered(t, Json(got[t][1]))

(* C2, amended: when the first response of post() is bad and the login     *)
(* fails, no retry is sent, the call ends, and the caller receives the     *)
(* exception that login() raised.                                          *)
C2_LoginErrorPropagates ==
    \A t \in Tasks :
        ReloginFailed(t) =>
            /\ pc[t] = "done"
            /\ Count(log[t], step[t], "retry") = 0
            /\ outcome[t] = [ok |-> FALSE, err |-> LoginError(got[t][2])]

(* The login response of a post() had a body without authKey. *)
C2_Witness ==
    \E t \in Tasks :
        /\ ReloginFailed(t)
        /\ got[t][2].kind = "json"
        /\ got[t][2].status = 200
        /\ outcome[t] = [ok |-> FALSE, err |-> "KeyError"]

---------------------------------------------------------------------------
(* The responses of the scenario of C3. *)
Unauthorized ==
    [status |-> 401, ctype |-> "text/json", kind |-> "empty", json |-> NoJson]
Granted(key) ==
    [status |-> 200, ctype |-> "text/json", kind |-> "json",
     json |-> [authKey |-> key]]
Listed(devices) ==
    [status |-> 200, ctype |-> "text/json", kind |-> "json",
     json |-> [memberDeviceList |-> devices]]

(* get_device_list() is the first call on the client and has received 401  *)
(* with no body, then {authKey: "abc"} for the login, then the device list.*)
Scenario(t) ==
    /\ call[t].op = "get_device_list"
    /\ calls = 1
    /\ Len(log[t]) >= 1
    /\ log[t][1].hdr = ""
    /\ got[t] = <<Unauthorized, Granted("abc"), Listed(DeviceList)>>

(* C3: in that scenario the call returns the device list as received and   *)
(* the stored token is "abc".                                              *)
C3_DeviceListAfterRelogin ==
    \A t \in Tasks :
        Scenario(t) =>
            /\ pc[t] = "done"
            /\ outcome[t] = [ok |-> TRUE, val |-> [py |-> "val", v |-> DeviceList]]
            /\ auth_key = "abc"
            /\ Len(log[t]) = 3
            /\ log[t][3].hdr = "abc"

(* The call of the scenario has ended. *)
C3_Witness == \E t \in Tasks : Scenario(t) /\ pc[t] = "done"

---------------------------------------------------------------------------
(* C4: every request carries as AUTH-KEY the token of the moment it is     *)
(* sent, which is empty as long as no login() has stored one.              *)
C4_HeaderIsCurrentToken ==
    \A t \in Tasks :
        \A i \in 1..Len(log[t]) :
            /\ log[t][i].hdr = log[t][i].tok
            /\ ~stored => log[t][i].hdr = ""

(* A caller that has made no login() of its own has sent a request with    *)
(* the token another caller's login() stored.                              *)
C4_Witness ==
    \E t \in Tasks :
        /\ Len(log[t]) = 1
        /\ log[t][1].kind = "first"
        /\ log[t][1].hdr = "xyz"
        /\ \E u \in Tasks \ {t} : pc[u] = "wait" /\ ctx[u] = "retry"

---------------------------------------------------------------------------
(* Task t takes the step, and it is the answer to a login request. *)
Stepped(t) == <<pc[t], ctx[t], got[t], log[t]>>' # <<pc[t], ctx[t], got[t], log[t]>>
LoginAnswered(t) == pc[t] = "wait" /\ ctx[t] = "login" /\ Stepped(t)

(* C5: only login() changes the token: a step that changes it is the step  *)
(* in which a login request is answered, and it stores an authKey; a step  *)
(* in which any other request of any operation is answered, or fails,      *)
(* leaves the token as it was.                                             *)
C5_OnlyLoginChangesToken ==
    [][ /\ auth_key' # auth_key =>
               /\ \E t \in Tasks : LoginAnswered(t)
               /\ stored'
        /\ \A t \in Tasks :
               (Stepped(t) /\ ~(pc[t] = "wait" /\ ctx[t] = "login")) =>
                   auth_key' = auth_key ]_vars

(* A login() made by post() inside a facade operation has changed the      *)
(* token.                                                                  *)
C5_Witness ==
    \E t \in Tasks :
        /\ call[t].op = "mode_bath"
        /\ step[t] = 3
        /\ Count(log[t], 3, "login") = 1
        /\ Len(got[t]) = 2
        /\ auth_key = "xyz"
        /\ log[t][1].tok = ""

---------------------------------------------------------------------------
(* C6 as stated: a token that is not empty never becomes empty again. *)
C6_NeverBackToEmpty == [][auth_key # "" => auth_key' # ""]_vars

(* C6, amended: the token goes from empty to set only in a login() that    *)
(* returns, and from set to empty only in a login() whose response carries *)
(* an empty authKey; no other answer of the server and no failure empties  *)
(* it.                                                                     *)
C6_EmptiedOnlyByLogin ==
    [][ /\ (auth_key = "" /\ auth_key' # "") =>
               (stored' /\ \E t \in Tasks : LoginAnswered(t))
        /\ (auth_key # "" /\ auth_key' = "") =>
               \E t \in Tasks :
                   /\ LoginAnswered(t)
                   /\ Count(log'[t], step[t], "retry") = 0
                   /\ pc'[t] = "done" =>
                          LET answer == got'[t][Len(got'[t])]
                          IN  LoginReturns(answer) /\ answer.json.authKey = ""
      ]_vars

(* A second login() has been answered with another token while the token   *)
(* was set, and the token is still set.                                    *)
C6_Witness ==
    \E t \in Tasks :
        /\ calls = 2
        /\ Len(log[t]) >= 2
        /\ log[t][2].kind = "login"
        /\ log[t][2].hdr = "abc"
        /\ auth_key = "xyz"

---------------------------------------------------------------------------
(* The SHA-256 digests of the passwords, as Python's hashlib prints them. *)
ReferenceDigest(p) ==
    CASE p = "hunter2" ->
           "f52fbd32b2b3b86ff88ef6c490628285f482af15ddcb29541f94bcf526a3f6c7"
      [] p = "s3cret" ->
           "1ec1c26b50d5d3c58d9583181af8076655fe00756bf7285940ba3670f99fcba0"

IsLoginRequest(e) == e.url = KITURAMI_API_URL \o "/member/login"

(* C7: a login request carries the username as memberId and, as password,  *)
(* the 64 hexadecimal digits of the SHA-256 digest of the stored password; *)
(* no request carries the password itself in its url, its AUTH-KEY header  *)
(* or a field of its body, and only login requests have a password field.  *)
C7_PasswordSentHashed ==
    \A t \in Tasks :
        \A i \in 1..Len(log[t]) :
            LET e == log[t][i]
            IN  /\ e.kind = "login" <=> IsLoginRequest(e)
                /\ IsLoginRequest(e) =>
                       /\ DOMAIN e.args = {"memberId", "password"}
                       /\ e.args.memberId = username
                       /\ e.args.password = ReferenceDigest(password)
                       /\ Len(e.args.password) = 64
                /\ ~IsLoginRequest(e) => "password" \notin DOMAIN e.args
                /\ e.url # password
                /\ e.hdr # password
                /\ \A f \in DOMAIN e.args :
                       IF f = "nodeIds"
                       THEN \A j \in 1..Len(e.args[f]) : e.args[f][j] # password
                       ELSE e.args[f] # password

(* A post() has sent a login request for the second password. *)
C7_Witness ==
    \E t \in Tasks :
        \E i \in 1..Len(log[t]) :
            /\ IsPost(t)
            /\ log[t][i].kind = "login"
            /\ password = "s3cret"
            /\ log[t][i].args.password = ReferenceDigest("s3cret")

---------------------------------------------------------------------------
(* C8: a request that fails in the transport ends the call with that       *)
(* error; when it is the first request of a post(), no login() is made, no *)
(* retry is sent and the token is the one the request was sent with.       *)
C8_TransportFailureEndsCall ==
    \A t \in Tasks :
        (Len(got[t]) >= 1 /\ got[t][Len(got[t])].kind = "failed") =>
            /\ pc[t] = "done"
            /\ outcome[t] = [ok |-> FALSE, err |-> "TransportError"]
            /\ Len(log[t]) >= 1
            /\ log[t][Len(log[t])].kind = ctx[t]
            /\ (IsPost(t) /\ Len(got[t]) = 1) =>
                   /\ ctx[t] = "first"
                   /\ Count(log[t], step[t], "first") = 1
                   /\ Count(log[t], step[t], "login") = 0
                   /\ Count(log[t], step[t], "retry") = 0
                   /\ auth_key = log[t][Len(log[t])].tok

(* The first request of a post() has failed in the transport while the     *)
(* token was set.                                                          *)
C8_Witness ==
    \E t \in Tasks :
        /\ IsPost(t)
        /\ got[t] = <<TransportFailed>>
        /\ pc[t] = "done"
        /\ auth_key = "abc"

---------------------------------------------------------------------------
(* The downstream calls of a facade method, in the order made: the control *)
(* messages and mode-info reads that were the first request of a post().   *)
RECURSIVE Downstream(_)
Downstream(lg) ==
    IF lg = <<>> THEN <<>>
    ELSE LET e == Head(lg)
             name == IF "messageId" \in DOMAIN e.args
                     THEN <<"control", e.args.messageId>>
                     ELSE IF "actionId" \in DOMAIN e.args
                     THEN <<"info", e.args.actionId>>
                     ELSE <<"other", "">>
         IN  IF e.kind = "first" THEN <<name>> \o Downstream(Tail(lg))
             ELSE Downstream(Tail(lg))

BathCalls ==
    << <<"info", "0105">>, <<"control", "0105">>, <<"control", "0103">>,
       <<"control", "0115">>, <<"info", "0105">> >>

Returned(t) == pc[t] = "done" /\ outcome[t].ok
Raised(t) == pc[t] = "done" /\ ~outcome[t].ok

(* C9 as stated: a mode_bath that returns has made 4 downstream calls, the *)
(* control messages 0105, 0103, 0115 and then a mode-info read 0105.       *)
C9_FourCalls ==
    \A t \in Tasks :
        (call[t].op = "mode_bath" /\ Returned(t)) =>
            Downstream(log[t]) =
                << <<"control", "0105">>, <<"control", "0103">>,
                   <<"control", "0115">>, <<"info", "0105">> >>

(* C9, amended: a mode_bath makes its downstream calls in one fixed order, *)
(* and one that returns has made exactly 5: a mode-info read 0105, the     *)
(* control messages 0105, 0103, 0115, and a last mode-info read 0105.      *)
C9_FiveCallsInOrder ==
    \A t \in Tasks :
        call[t].op = "mode_bath" =>
            /\ step[t] \in 1..5
            /\ Downstream(log[t]) = SubSeq(BathCalls, 1, step[t])
            /\ Returned(t) => Downstream(log[t]) = BathCalls

(* A mode_bath has returned after five requests, none of them repeated. *)
C9_Witness ==
    \E t \in Tasks :
        /\ call[t].op = "mode_bath"
        /\ Returned(t)
        /\ Len(log[t]) = 5

---------------------------------------------------------------------------
(* C10: when a step of a multi-step operation raises, the call ends with   *)
(* that error; the requests sent are those of the steps up to that one, in *)
(* order, each followed at most by its login and its retry: nothing undoes *)
(* the earlier steps and no later step is made.                            *)
C10_NoRollbackNoResume ==
    \A t \in Tasks :
        (call[t].op = "mode_bath" /\ Raised(t)) =>
            /\ Downstream(log[t]) = SubSeq(BathCalls, 1, step[t])
            /\ \A i \in 1..Len(log[t]) :
                   /\ log[t][i].step \in 1..step[t]
                   /\ i > 1 => log[t][i].step >= log[t][i - 1].step
                   /\ log[t][i].kind = "retry" =>
                          \E j \in 1..(i - 1) :
                              /\ log[t][j].kind = "first"
                              /\ log[t][j].step = log[t][i].step
                              /\ log[t][j].url = log[t][i].url
                              /\ log[t][j].args = log[t][i].args
                   /\ log[t][i].kind = "login" =>
                          log[t][i].url = KITURAMI_API_URL \o "/member/login"
            /\ (step[t] = 1 /\ Len(got[t]) = 1 /\ got[t][1].kind = "json"
                /\ got[t][1].status = 200) =>
                   "value" \notin DOMAIN got[t][1].json

(* mode_bath has raised in its fourth downstream call, after the first     *)
(* three were made and answered.                                           *)
C10_Witness ==
    \E t \in Tasks :
        /\ call[t].op = "mode_bath"
        /\ Raised(t)
        /\ step[t] = 4
        /\ Downstream(log[t]) = SubSeq(BathCalls, 1, 4)

---------------------------------------------------------------------------
(* The downstream calls of a call: the first requests of its post()s. *)
IsFirst(e) == e.kind = "first"
Firsts(lg) == SelectSeq(lg, IsFirst)

IsModeInfo(e) == e.url = KITURAMI_API_URL \o "/device/getDeviceModeInfo"
IsControl(e) == e.url = KITURAMI_API_URL \o "/device/deviceControl"

(* The payloads of a mode-info read and of a control message. *)
InfoArgs(c, slave, action) ==
    [nodeId |-> c.node_id, actionId |-> action, parentId |-> c.parent_id,
     slaveId |-> slave]
ControlArgs(c, message, body) ==
    [nodeIds |-> <<c.node_id>>, messageId |-> message, messageBody |-> body]

(* The method's local response is a mode info that has the field. *)
HasField(l, f) == l.response.py = "dict" /\ f \in DOMAIN l.response.d

(* C11: mode_heat with a target temperature makes one downstream call, the *)
(* control message 0102 with body slaveId 000000 target 00, and sends no    *)
(* mode-info read; with no target (None, or an empty one) its first         *)
(* downstream call is one mode-info read 0102, its second and last the      *)
(* control message 0102 whose body holds the value that read returned, and  *)
(* a call that returns has made both.                                       *)
C11_HeatReadsOnlyWithoutTarget ==
    \A t \in Tasks :
        call[t].op = "mode_heat" =>
            LET c == call[t]
                d == Firsts(log[t])
                body(temp) == c.slave_id \o "000000" \o temp \o "00"
            IN  IF Truthy(c.target_temp)
                THEN /\ \A i \in 1..Len(log[t]) : ~IsModeInfo(log[t][i])
                     /\ Len(d) = 1
                     /\ IsControl(d[1])
                     /\ d[1].args =
                            ControlArgs(c, "0102", body(c.target_temp.v))
                ELSE /\ Len(d) \in {1, 2}
                     /\ IsModeInfo(d[1])
                     /\ d[1].args = InfoArgs(c, c.slave_id, "0102")
                     /\ Len(d) = 2 =>
                            /\ HasField(loc[t], "value")
                            /\ IsControl(d[2])
                            /\ d[2].args =
                                   ControlArgs(c, "0102",
                                               body(loc[t].response.d.value))
                     /\ Returned(t) => Len(d) = 2

(* A mode_heat without target has returned after sending the value 2A that *)
(* it had read.                                                            *)
C11_Witness ==
    \E t \in Tasks :
        /\ call[t].op = "mode_heat"
        /\ call[t].target_temp = PyNone
        /\ Returned(t)
        /\ Len(log[t]) = 2
        /\ log[t][2].args.messageBody = "010000002A00"

---------------------------------------------------------------------------
(* The message id and the body's ending of the one-message commands. *)
SwitchMessage(op) ==
    CASE op = "turn_on" -> <<"0101", "0000000001">>
      [] op = "turn_off" -> <<"0101", "0000000002">>
      [] op = "mode_away" -> <<"0106", "0200000000">>

(* C12: turn_on, turn_off and mode_away each make exactly one downstream   *)
(* call, a control message for the one node given, and no mode-info read:  *)
(* 0101 with body slaveId 0000000001, 0101 with slaveId 0000000002, and    *)
(* 0106 with slaveId 0200000000; whatever else the call sends is a login   *)
(* or the retry of that same message.                                      *)
C12_OneControlMessage ==
    \A t \in Tasks :
        call[t].op \in {"turn_on", "turn_off", "mode_away"} =>
            LET c == call[t]
                d == Firsts(log[t])
                m == SwitchMessage(c.op)
            IN  /\ Len(d) = 1
                /\ log[t][1] = d[1]
                /\ IsControl(d[1])
                /\ d[1].args = ControlArgs(c, m[1], c.slave_id \o m[2])
                /\ Len(d[1].args.messageBody) = 12
                /\ \A i \in 1..Len(log[t]) :
                       /\ ~IsModeInfo(log[t][i])
                       /\ log[t][i].kind # "login" =>
                              /\ log[t][i].url = d[1].url
                              /\ log[t][i].args = d[1].args

(* A turn_off for the second slave has returned. *)
C12_Witness ==
    \E t \in Tasks :
        /\ call[t].op = "turn_off"
        /\ call[t].slave_id = "02"
        /\ Returned(t)
        /\ log[t][1].args.messageBody = "020000000002"

---------------------------------------------------------------------------
(* The retry that the post() of task t has sent, and the token that its    *)
(* own login() returned.                                                   *)
HasRetry(t) == IsPost(t) /\ Count(log[t], step[t], "retry") = 1
RetryOf(t) == log[t][Len(log[t])]
OwnToken(t) == got[t][2].json.authKey

(* Two post()s ran their logins at the same time: each login request was   *)
(* sent before either login had stored a token, the logins returned        *)
(* different tokens, and each post() has sent its retry.                   *)
Raced(t, u) ==
    /\ t # u
    /\ HasRetry(t) /\ HasRetry(u)
    /\ \A v \in {t, u} : log[v][Len(log[v]) - 1].kind = "login"
                          /\ log[v][Len(log[v]) - 1].hdr = ""
    /\ OwnToken(t) # OwnToken(u)

(* C13 as stated, at the end of the interleavings it speaks of: when two   *)
(* concurrent post()s have each run login() and sent their retries, the    *)
(* retry of one of them carries the token that the other's login() stored. *)
C13_RetryCarriesOtherToken ==
    \A t, u \in Tasks :
        Raced(t, u) =>
            \/ RetryOf(t).hdr = OwnToken(u)
            \/ RetryOf(u).hdr = OwnToken(t)

(* C13, amended: in every interleaving the retry of a post() carries the   *)
(* token that its own login() returned, also when another post()'s login() *)
(* has stored a different token before or after.                           *)
C13_RetryCarriesOwnToken ==
    \A t \in Tasks :
        \A i \in 1..Len(log[t]) :
            (IsPost(t) /\ log[t][i].kind = "retry") =>
                /\ Len(got[t]) >= 2
                /\ LoginReturns(got[t][2])
                /\ log[t][i].hdr = OwnToken(t)
                /\ log[t][i].tok = OwnToken(t)

(* Two post()s ran their logins at the same time, and the second login()   *)
(* has overwritten the token while the retry of the first, sent with the   *)
(* first token, is in flight.                                              *)
C13_Witness ==
    \E t, u \in Tasks :
        /\ Raced(t, u)
        /\ pc[t] = "wait" /\ ctx[t] = "retry"
        /\ RetryOf(t).hdr = "abc"
        /\ OwnToken(u) = "xyz"
        /\ auth_key = "xyz"

---------------------------------------------------------------------------
(* The operations that hand the result of their one post() to the caller   *)
(* as it is.                                                               *)
PassThrough == {"ios", "get_alive", "device_mode_info", "device_control"}

(* The post() of task t has ended by parsing a response: no request failed *)
(* in the transport and its login(), if any, returned.                     *)
PostParsed(t) ==
    /\ call[t].op \in PassThrough
    /\ pc[t] = "done"
    /\ got[t][Len(got[t])].kind # "failed"
    /\ Len(got[t]) = 2 => LoginReturns(got[t][2])

(* C14: the result of post() is the parsed body of the retry's response    *)
(* when a retry was sent, whatever that response is, and of the first      *)
(* response otherwise; a retry is never followed by another request, and   *)
(* the login response, the second received, is never the one parsed.       *)
C14_LastResponseParsed ==
    \A t \in Tasks :
        PostParsed(t) =>
            LET n == Len(got[t])
                retried == Count(log[t], step[t], "retry") = 1
            IN  /\ retried <=> n = 3
                /\ n \in {1, 2, 3}
                /\ Len(log[t]) = n
                /\ retried => log[t][n].kind = "retry"
                /\ outcome[t] = Json(got[t][IF retried THEN 3 ELSE 1])

(* A post() has returned the body of a retry that was rejected again,      *)
(* after a first response with no body and a login that returned a token.  *)
C14_Witness ==
    \E t \in Tasks :
        /\ PostParsed(t)
        /\ Len(got[t]) = 3
        /\ got[t][1].kind = "empty"
        /\ got[t][2].json = [authKey |-> "abc"]
        /\ got[t][3].status = 401
        /\ outcome[t] = Ret(PyDict([message |-> "fail"]))

---------------------------------------------------------------------------
(* The message id of a reservation command and the fields it reads. *)
ReservationId(op) == IF op = "mode_reservation" THEN "0107" ELSE "0108"
ReservationFields(op) ==
    IF op = "mode_reservation" THEN {"value"} ELSE {"value", "option1"}

(* The body a reservation command builds from the mode info m. *)
ReservationBody(c, m) ==
    IF c.op = "mode_reservation" THEN c.slave_id \o m.value
    ELSE c.slave_id \o "000000" \o m.value \o m.option1

(* The body that the post() of task t, now ended, has parsed. *)
ParsedBody(t) ==
    Json(got[t][IF Len(got[t]) = 3 THEN 3 ELSE 1])

(* C15: mode_reservation and mode_reservation_repeat first make one        *)
(* mode-info read whose actionId is their message id, 0107 or 0108, then   *)
(* one control message with that id whose body is built from the value     *)
(* (and option1) just read; a call that returns has made both, and a call  *)
(* whose read raised, or returned a body without a needed field, has ended *)
(* with an error and sent no control message.                              *)
C15_ReadBeforeWrite ==
    \A t \in Tasks :
        call[t].op \in {"mode_reservation", "mode_reservation_repeat"} =>
            LET c == call[t]
                d == Firsts(log[t])
                id == ReservationId(c.op)
                needed == ReservationFields(c.op)
            IN  /\ Len(d) \in {1, 2}
                /\ IsModeInfo(d[1])
                /\ d[1].args = InfoArgs(c, c.slave_id, id)
                /\ Len(d) = 2 =>
                       /\ \A f \in needed : HasField(loc[t], f)
                       /\ IsControl(d[2])
                       /\ d[2].args =
                              ControlArgs(c, id,
                                          ReservationBody(c, loc[t].response.d))
                /\ Returned(t) => Len(d) = 2
                /\ (pc[t] = "done" /\ step[t] = 1) =>
                       /\ Raised(t)
                       /\ \A i \in 1..Len(log[t]) : ~IsControl(log[t][i])
                       /\ (got[t][Len(got[t])].kind # "failed"
                           /\ (Len(got[t]) = 2 => LoginReturns(got[t][2]))) =>
                              LET r == ParsedBody(t)
                              IN  \/ ~r.ok
                                  \/ r.val.py # "dict"
                                  \/ \E f \in needed : f \notin DOMAIN r.val.d

(* A mode_reservation_repeat for the second slave has returned after       *)
(* sending the value and the option it had read.                           *)
C15_Witness ==
    \E t \in Tasks :
        /\ call[t].op = "mode_reservation_repeat"
        /\ call[t].slave_id = "02"
        /\ Returned(t)
        /\ Len(log[t]) = 2
        /\ log[t][2].args.messageBody = "020000002A05"

---------------------------------------------------------------------------
(* C16: 80 and 70 are rendered as 50 and 46; the 0103 message of mode_bath *)
(* has the body 000000005046 and its 0115 message the body 000000004600,   *)
(* 12 characters each, and its 0105 message has the body 00000000, the     *)
(* value that the mode-info read before it returned, and 00.               *)
C16_BathBodies ==
    /\ FormatX(80) = "50"
    /\ FormatX(70) = "46"
    /\ \A t \in Tasks :
           call[t].op = "mode_bath" =>
               LET c == call[t]
                   d == Firsts(log[t])
               IN  /\ Len(d) >= 2 =>
                          /\ HasField(loc[t], "value")
                          /\ d[2].args =
                                 ControlArgs(c, "0105",
                                     "00000000" \o loc[t].response.d.value
                                                \o "00")
                   /\ Len(d) >= 3 =>
                          /\ d[3].args = ControlArgs(c, "0103", "000000005046")
                          /\ Len(d[3].args.messageBody) = 12
                   /\ Len(d) >= 4 =>
                          /\ d[4].args = ControlArgs(c, "0115", "000000004600")
                          /\ Len(d[4].args.messageBody) = 12

(* A mode_bath that had read the value 1E has sent its three control       *)
(* messages.                                                               *)
C16_Witness ==
    \E t \in Tasks :
        /\ call[t].op = "mode_bath"
        /\ Len(Firsts(log[t])) >= 4
        /\ Firsts(log[t])[2].args.messageBody = "000000001E00"
        /\ Firsts(log[t])[4].args.messageId = "0115"

---------------------------------------------------------------------------
(* The call of task t has ended in a login() that did not return: its      *)
(* request failed in the transport, or its response could not be parsed or *)
(* had no authKey.                                                         *)
LoginFailed(t) ==
    /\ pc[t] = "done"
    /\ ctx[t] = "login"
    /\ Len(got[t]) >= 1
    /\ ~LoginReturns(got[t][Len(got[t])])

(* C17: a login() that fails leaves the token as it was when the login     *)
(* request was sent, and the caller of login(), or of the post() that made *)
(* it, gets the error of the login.                                        *)
C17_FailedLoginKeepsToken ==
    \A t \in Tasks :
        LoginFailed(t) =>
            LET sent == log[t][Len(log[t])]
            IN  /\ sent.kind = "login"
                /\ auth_key = sent.tok
                /\ outcome[t] = Raise(LoginError(got[t][Len(got[t])]))

(* The login() of a post() has failed on a response without authKey while  *)
(* the token was set.                                                      *)
C17_Witness ==
    \E t \in Tasks :
        /\ LoginFailed(t)
        /\ IsPost(t)
        /\ got[t][2].json = [message |-> "fail"]
        /\ auth_key = "abc"

---------------------------------------------------------------------------
(* The kinds of the requests that step k of a call has sent, in order. *)
RECURSIVE StepKinds(_, _)
StepKinds(lg, k) ==
    IF lg = <<>> THEN <<>>
    ELSE (IF Head(lg).step = k THEN <<Head(lg).kind>> ELSE <<>>)
         \o StepKinds(Tail(lg), k)

(* C18: login() sends one request, to the login endpoint, and ends with    *)
(* its answer whatever it is; a post() sends its request, then at most one *)
(* login request, then at most one retry, and each answer either ends it   *)
(* or is followed by the next of these requests: after at most three       *)
(* answers it has ended.  A login answered with a status other than 200 or *)
(* with no body is followed by no other login request.                     *)
C18_NoNestedLogin ==
    \A t \in Tasks :
        /\ call[t].op = "login" =>
               /\ Len(log[t]) = 1
               /\ log[t][1].kind = "login"
               /\ IsLoginRequest(log[t][1])
               /\ Len(got[t]) = IF pc[t] = "done" THEN 1 ELSE 0
        /\ IsPost(t) =>
               /\ \A k \in 1..step[t] :
                      StepKinds(log[t], k) \in
                          { <<"first">>, <<"first", "login">>,
                            <<"first", "login", "retry">> }
               /\ \A i \in 1..Len(log[t]) :
                      log[t][i].kind = "login" <=> IsLoginRequest(log[t][i])
               /\ LET n == Len(StepKinds(log[t], step[t]))
                  IN  Len(got[t]) = IF pc[t] = "done" THEN n ELSE n - 1
               /\ (Len(got[t]) >= 2 /\ BadResponse(got[t][2])) =>
                      StepKinds(log[t], step[t]) \in
                          { <<"first", "login">>,
                            <<"first", "login", "retry">> }

(* The login() of a post() has been answered 401 with no body, and the     *)
(* call has ended.                                                         *)
C18_Witness ==
    \E t \in Tasks :
        /\ IsPost(t)
        /\ pc[t] = "done"
        /\ Len(got[t]) = 2
        /\ got[t][2].status = 401
        /\ got[t][2].kind = "empty"

---------------------------------------------------------------------------
(* The login() of the post() of task t has returned: the token it returned.*)
LoginReturned(t) ==
    IsPost(t) /\ Len(got[t]) >= 2 /\ LoginReturns(got[t][2])

(* C19: a post() sends the retry exactly when its login() has returned a   *)
(* token that is not empty.  When the login response carries an empty      *)
(* authKey the token becomes the empty string, no retry is sent, and the   *)
(* post() ends with the first response as the one parsed: its body, or the *)
(* error of parsing it, goes to the method that called post().             *)
C19_RetryIffToken ==
    \A t \in Tasks :
        IsPost(t) =>
            /\ Count(log[t], step[t], "retry") = 1 <=>
                   (LoginReturned(t) /\ OwnToken(t) # "")
            /\ (LoginReturned(t) /\ OwnToken(t) = "") =>
                   /\ auth_key = ""
                   /\ pc[t] = "done"
                   /\ Len(got[t]) = 2
                   /\ log[t][Len(log[t])].kind = "login"
                   /\ outcome[t] = Delivered(t, Json(got[t][1]))
                   /\ call[t].op \in PassThrough =>
                          outcome[t] = Json(got[t][1])

(* A post() sent with the token abc was answered 401 with a body, its      *)
(* login() received an empty authKey, and the caller has the first body.   *)
C19_Witness ==
    \E t \in Tasks :
        /\ LoginReturned(t)
        /\ OwnToken(t) = ""
        /\ call[t].op = "ios"
        /\ log[t][1].hdr = "abc"
        /\ got[t][1].status = 401
        /\ outcome[t] = Ret(PyDict([message |-> "fail"]))
        /\ auth_key = ""

---------------------------------------------------------------------------
(* Where in the record of its call the current post() of task t starts. *)
PostStart(t) == Len(log[t]) - Len(StepKinds(log[t], step[t])) + 1

(* C20: with one caller, a post() that logs in sends the login request     *)
(* after a first response that was rejected or had no body, with the token *)
(* that the first request was sent with (the empty string when no login    *)
(* has stored one); the retry comes after the login has returned, has the  *)
(* url and the payload of the first request, and carries the authKey that  *)
(* this login returned.                                                    *)
C20_ReloginOrder ==
    \A t \in Tasks :
        (IsPost(t) /\ Len(StepKinds(log[t], step[t])) >= 2) =>
            LET first == log[t][PostStart(t)]
                login == log[t][PostStart(t) + 1]
            IN  /\ first.kind = "first"
                /\ login.kind = "login"
                /\ IsLoginRequest(login)
                /\ Len(got[t]) >= 1
                /\ BadResponse(got[t][1])
                /\ login.hdr = first.tok
                /\ login.hdr = first.hdr
                /\ (~stored => login.hdr = "")
                /\ Len(StepKinds(log[t], step[t])) = 3 =>
                       LET retry == log[t][PostStart(t) + 2]
                       IN  /\ retry.kind = "retry"
                           /\ LoginReturns(got[t][2])
                           /\ retry.url = first.url
                           /\ retry.args = first.args
                           /\ retry.hdr = got[t][2].json.authKey
                           /\ retry.hdr # ""

(* A post() sent with the token abc has logged in with abc, received xyz,  *)
(* and sent its retry with xyz.                                            *)
C20_Witness ==
    \E t \in Tasks :
        /\ IsPost(t)
        /\ Len(log[t]) = 3
        /\ log[t][1].hdr = "abc"
        /\ log[t][2].kind = "login"
        /\ log[t][2].hdr = "abc"
        /\ log[t][3].kind = "retry"
        /\ log[t][3].hdr = "xyz"

====
